---------------------------- MODULE Spec2Model ----------------------------
(***************************************************************************)
(* A model of the primality-testing toolkit: trial division, deterministic *)
(* and probabilistic Miller-Rabin, Solovay-Strassen, and the arithmetic    *)
(* they share (modmul_u64, modpow, legendre_symbol).                        *)
(*                                                                         *)
(* Machine integers are modelled at a reduced width: the type u64 is an    *)
(* unsigned integer of WordBits bits and u128 one of 2 * WordBits bits.    *)
(* All arithmetic is written for the width, so overflow, wrapping and the  *)
(* widening in modmul_u64 behave as in the source, only at a smaller       *)
(* scale.  A build either has debug assertions and overflow checks (debug  *)
(* = TRUE: debug_assert! is evaluated, arithmetic overflow panics) or has  *)
(* not (debug = FALSE: debug_assert! is compiled out, arithmetic wraps).   *)
(***************************************************************************)
EXTENDS Integers, Sequences, FiniteSets

VARIABLES
    fn,         \* the entry point that was called
    debug,      \* the build has debug assertions and overflow checks
    pc,         \* position in the running function
    n,          \* the number under test
    k,          \* the number of rounds asked for (probabilistic tests)
    a,          \* the last witness used or value drawn (0: none yet)
    i,          \* trial division: the candidate divisor; otherwise the
                \* number of rounds (witnesses) completed
    bits,       \* trial division: the width of the integer type of n and i
    iter,       \* trial division: iterations of the loop started
    overflow,   \* history: some arithmetic operation exceeded its width
    d,          \* Miller-Rabin: the odd part of n - 1
    r,          \* Miller-Rabin: n - 1 = 2^r * d
    draws,      \* history: the number of values taken from the random source
    liarsOnly,  \* history: every value drawn so far is an Euler liar for n
    base,       \* modpow: the arguments
    exponent,
    modulus,
    result      \* the value returned ("none" before the return)

vars == << fn, debug, pc, n, k, a, i, bits, iter, overflow, d, r, draws,
           liarsOnly, base, exponent, modulus, result >>

-----------------------------------------------------------------------------
(* Bounds of the model *)

\* the width, in bits, that stands for u64 (u128 is twice as wide)
WordBits == 12

\* trial division: the largest number of loop iterations followed
MaxIter == 1500

\* trial_division_u128: inputs are taken within Edge128 of 2^WordBits and of
\* the top of the 128-bit range
Edge128 == 8

-----------------------------------------------------------------------------
(* Machine integers *)

U64_MAX == 2^WordBits - 1

U128_MAX == 2^(2 * WordBits) - 1

\* the largest value of an unsigned integer of b bits
MaxOf(b) == 2^b - 1

\* i.pow(2) exceeds the width b.  (i * i is not formed for i >= 2^WordBits,
\* where it exceeds every width of the model.)
PowOverflows(v, b) == IF v <= U64_MAX THEN v * v > MaxOf(b) ELSE TRUE

\* i.pow(2) reduced to the width b, as wrapping arithmetic leaves it; for
\* v >= 2^WordBits (b = 2 * WordBits) the square is formed by halves.
WrappingPow(v, b) ==
    IF v <= U64_MAX
    THEN (v * v) % 2^b
    ELSE LET half == U64_MAX + 1
             h == v \div half
             l == v % half
         IN  (((2 * h * l) % half) * half + l * l) % 2^b

\* a + b reduced to the width w
WrappingAdd(v, w, b) == (v + w) % 2^b

AddOverflows(v, w, b) == v + w > MaxOf(b)

-----------------------------------------------------------------------------
(* Primality (lib.rs) *)

Primality == {"ZeroOrOne", "Prime", "Composite", "ProbablyPrime"}

\* impl Into<bool> for Primality
IntoBool(p) == p \in {"Prime", "ProbablyPrime"}

-----------------------------------------------------------------------------
(* Reference notions the code is compared with *)

\* v is a prime number
IsPrime(v) == v > 1 /\ \A q \in 2..(v - 1) : q * q > v \/ v % q # 0

\* v is composite
IsComposite(v) == v > 1 /\ ~IsPrime(v)

-----------------------------------------------------------------------------
(* Trial division (trial_division.rs) *)

SmallPrimes == {2, 3, 5, 7, 11, 13, 17, 19, 23, 29, 31, 37, 41, 43, 47, 53,
                59, 61, 67, 71, 73, 79, 83, 89, 97}

\* the state in which a function has returned v
Return(v) == /\ pc' = "done"
             /\ result' = v

\* the state after a panic (a failed assertion, an overflow check)
Panic == /\ pc' = "panic"
         /\ result' = "none"

\* trial_division_u128, up to its loop
trial_division_u128 ==
    /\ pc = "call" /\ fn = "trial_division_u128"
    /\ IF n <= U64_MAX
       THEN /\ pc' = "call64"
            /\ bits' = WordBits
            /\ UNCHANGED << i, result >>
       ELSE /\ bits' = 2 * WordBits
            /\ IF n % 2 = 0 \/ n % 3 = 0
               THEN Return("Composite") /\ UNCHANGED i
               ELSE pc' = "loop" /\ i' = 5 /\ UNCHANGED result
    /\ UNCHANGED << fn, debug, n, k, a, iter, overflow, d, r, draws,
                    liarsOnly, base, exponent, modulus >>

\* trial_division_u64, up to its loop
trial_division_u64 ==
    /\ \/ pc = "call" /\ fn = "trial_division_u64"
       \/ pc = "call64"
    /\ IF n \in {0, 1}
       THEN Return("ZeroOrOne") /\ UNCHANGED i
       ELSE IF n \in SmallPrimes
       THEN Return("Prime") /\ UNCHANGED i
       ELSE IF n % 2 = 0 \/ n % 3 = 0
       THEN Return("Composite") /\ UNCHANGED i
       ELSE pc' = "loop" /\ i' = 5 /\ UNCHANGED result
    /\ UNCHANGED << fn, debug, n, k, a, bits, iter, overflow, d, r, draws,
                    liarsOnly, base, exponent, modulus >>

\* one iteration of the loop of trial_division_u64 / trial_division_u128
trial_division_loop ==
    /\ pc = "loop"
    /\ iter < MaxIter
    /\ iter' = iter + 1
    /\ LET sqOver   == PowOverflows(i, bits)
           sq       == WrappingPow(i, bits)
           plusOver == AddOverflows(i, 2, bits)
           plus     == WrappingAdd(i, 2, bits)
           nextOver == AddOverflows(i, 6, bits)
       IN  IF sqOver /\ debug
           THEN Panic /\ overflow' = TRUE /\ UNCHANGED i
           ELSE IF sq > n
           THEN Return("Prime") /\ overflow' = (overflow \/ sqOver)
                /\ UNCHANGED i
           ELSE IF n % i = 0
           THEN Return("Composite") /\ overflow' = (overflow \/ sqOver)
                /\ UNCHANGED i
           ELSE IF plusOver /\ debug
           THEN Panic /\ overflow' = TRUE /\ UNCHANGED i
           ELSE IF plus = 0
           THEN Panic /\ overflow' = TRUE /\ UNCHANGED i
           ELSE IF n % plus = 0
           THEN Return("Composite")
                /\ overflow' = (overflow \/ sqOver \/ plusOver)
                /\ UNCHANGED i
           ELSE IF nextOver /\ debug
           THEN Panic /\ overflow' = TRUE /\ UNCHANGED i
           ELSE /\ i' = WrappingAdd(i, 6, bits)
                /\ overflow' = (overflow \/ sqOver \/ plusOver \/ nextOver)
                /\ UNCHANGED << pc, result >>
    /\ UNCHANGED << fn, debug, n, k, a, bits, d, r, draws, liarsOnly,
                    base, exponent, modulus >>

\* the inputs of trial_division_u128 the model follows
Inputs128 == (0..Edge128)
             \cup ((U64_MAX - Edge128)..(U64_MAX + 1 + Edge128))
             \cup ((U128_MAX - Edge128)..U128_MAX)

InitTD ==
    /\ fn \in {"trial_division_u64", "trial_division_u128"}
    /\ debug \in BOOLEAN
    /\ pc = "call"
    /\ n \in IF fn = "trial_division_u64" THEN 0..U64_MAX ELSE Inputs128
    /\ bits = IF fn = "trial_division_u64" THEN WordBits ELSE 2 * WordBits
    /\ i = 0 /\ iter = 0 /\ overflow = FALSE
    /\ k = 0 /\ a = 0 /\ d = 0 /\ r = 0 /\ draws = 0 /\ liarsOnly = TRUE
    /\ base = 0 /\ exponent = 0 /\ modulus = 0
    /\ result = "none"

NextTD == \/ trial_division_u128
          \/ trial_division_u64
          \/ trial_division_loop

SpecTD == InitTD /\ [][NextTD]_vars

-----------------------------------------------------------------------------
(* Modular arithmetic (miller_rabin.rs) *)

\* the value that stands for "the call panicked" where a number is returned
PANIC == -1

\* modmul_u64 with the product reduced to the word before the remainder is
\* taken (wrapping_mul in place of checked_mul and the widening)
modmul_u64_wrapping(x, y, m) ==
    IF m = 0 THEN PANIC ELSE ((x * y) % (U64_MAX + 1)) % m

\* a * b % m
modmul_u64(x, y, m) ==
    IF m = 0
    THEN PANIC                          \* remainder by zero
    ELSE IF x * y <= U64_MAX            \* a.checked_mul(b) is Some(r)
    THEN (x * y) % m
    ELSE LET ret == ((x * y) % (U128_MAX + 1)) % m  \* as u128: never wraps
         IN  IF ret <= U64_MAX THEN ret ELSE PANIC  \* assert!(ret <= u64::MAX)

\* the loop of modpow: res is `result`, b is `base`, e is `exponent`
RECURSIVE modpow_loop(_, _, _, _)
modpow_loop(res, b, e, m) ==
    IF res = PANIC \/ b = PANIC
    THEN PANIC
    ELSE IF e > 0
    THEN modpow_loop(IF e % 2 = 1 THEN modmul_u64(res, b, m) ELSE res,
                     modmul_u64(b, b, m),
                     e \div 2,
                     m)
    ELSE res

\* base ^ exponent % modulus
modpow(b, e, m) ==
    IF m = 1
    THEN 0
    ELSE IF m = 0
    THEN PANIC                          \* base % modulus, remainder by zero
    ELSE modpow_loop(1, b % m, e, m)

\* b ^ e mod m by its definition, e taken in digits of radix 16 so that the
\* recursion stays shallow: b^e = (b^16)^(e div 16) * b^(e mod 16)
RECURSIVE PowRef(_, _, _)
PowRef(b, e, m) ==
    IF e = 0
    THEN 1 % m
    ELSE IF e <= 16
    THEN (PowRef(b, e - 1, m) * (b % m)) % m
    ELSE (PowRef(PowRef(b, 16, m), e \div 16, m) * PowRef(b, e % 16, m)) % m

\* BigUint::modpow of num_bigint: arbitrary precision, nothing to overflow
biguint_modpow(b, e, m) == PowRef(b, e, m)

\* rng.gen_range(low, high) and rng.gen_biguint_range(low, high): the values
\* that can be drawn, low inclusive and high exclusive (empty: the call panics)
gen_range(low, high) == low..(high - 1)

-----------------------------------------------------------------------------
(* Miller-Rabin (miller_rabin.rs) *)

\* the rounds a probabilistic test is asked for
MaxK == 4

\* the largest arbitrary-precision input (and Solovay-Strassen input) followed
MaxBig == 64

\* write n - 1 as 2^r * d with d odd: << d, r >> once the loop has ended,
\* started from << n - 1, 0 >>
RECURSIVE factor_twos(_, _)
factor_twos(dd, rr) ==
    IF dd % 2 = 0 /\ dd # 0     \* dd = 0 is left to the callers
    THEN factor_twos(dd \div 2, rr + 1) ELSE << dd, rr >>

\* the match of miller_rabin_primality_test_u64 with its second row given
\* the witnesses of the first
witnesses_first_row_only(v) == << 2 >>

\* the witnesses for n.  The rows of the source above 25_326_000 have bounds
\* beyond the integers of the model, which n (at most U64_MAX) never reaches;
\* they are, in order: [2,3,5,7], [2,7,61], [2,13,23,1662803], [2,3,5,7,11],
\* [2,3,5,7,11,13], [2,3,5,7,11,13,17], [2,3,5,7,11,13,17,19,23] and
\* [2,3,5,7,11,13,17,19,23,29,31,37].
witnesses(v) ==
    IF v <= 2046 THEN << 2 >>
    ELSE IF v <= 1373652 THEN << 2, 3 >>
    ELSE IF v <= 9080190 THEN << 31, 73 >>
    ELSE IF v <= 25326000 THEN << 2, 3, 5 >>
    ELSE << 2, 3, 5, 7 >>

\* the inner loop, 64-bit, with the squares compared with 1 in place of n - 1
RECURSIVE squarings_u64_until_one(_, _, _, _)
squarings_u64_until_one(x, v, rr, j) ==
    IF j < rr
    THEN LET x2 == modpow(x, 2, v)
         IN  IF x2 = 1 THEN TRUE ELSE squarings_u64_until_one(x2, v, rr, j + 1)
    ELSE FALSE

\* the inner loop of the witness loop, 64-bit: TRUE when some squaring gives
\* n - 1 (continue 'WitnessLoop), FALSE when the loop runs out (composite).
\* j squarings have been made.
RECURSIVE squarings_u64(_, _, _, _)
squarings_u64(x, v, rr, j) ==
    IF j < rr
    THEN LET x2 == modpow(x, 2, v)
         IN  IF x2 = v - 1 THEN TRUE ELSE squarings_u64(x2, v, rr, j + 1)
    ELSE FALSE

\* the body of the witness loop, 64-bit: TRUE when witness w passes
witness_passes_u64(w, v, dd, rr) ==
    LET x == modpow(w, dd, v)
    IN  IF x = 1 \/ x = v - 1 THEN TRUE ELSE squarings_u64(x, v, rr, 0)

\* the inner loop, arbitrary precision, with the `return Composite` after it
\* left out: a witness whose squarings run out falls through to the next round
squarings_biguint_fall_through(x, v, rr, j) == TRUE

\* the inner loop of the witness loop, arbitrary precision
RECURSIVE squarings_biguint(_, _, _, _)
squarings_biguint(x, v, rr, j) ==
    IF j < rr
    THEN LET x2 == biguint_modpow(x, 2, v)
         IN  IF x2 = v - 1 THEN TRUE ELSE squarings_biguint(x2, v, rr, j + 1)
    ELSE FALSE

\* the body of the witness loop, arbitrary precision
witness_passes_biguint(w, v, dd, rr) ==
    LET x == biguint_modpow(w, dd, v)
    IN  IF x = 1 \/ x = v - 1 THEN TRUE ELSE squarings_biguint(x, v, rr, 0)

\* miller_rabin_primality_test_u64, up to the witness loop
miller_rabin_u64_begin ==
    /\ pc = "call" /\ fn = "miller_rabin_primality_test_u64"
    /\ IF debug /\ ~(n > 1 /\ n % 2 # 0)
       THEN Panic /\ UNCHANGED << d, r >>      \* debug_assert!
       ELSE IF n = 1
       THEN /\ pc' = "diverged"                \* d = 0: `while d % 2 == 0`
            /\ UNCHANGED << d, r, result >>    \* never ends
       ELSE IF n <= 2
       THEN Panic /\ UNCHANGED << d, r >>      \* unreachable!()
       ELSE /\ d' = factor_twos(n - 1, 0)[1]
            /\ r' = factor_twos(n - 1, 0)[2]
            /\ pc' = "witness"
            /\ UNCHANGED result
    /\ UNCHANGED << fn, debug, n, k, a, i, bits, iter, overflow, draws,
                    liarsOnly, base, exponent, modulus >>

\* one pass of the witness loop of miller_rabin_primality_test_u64, or the
\* return after the last
miller_rabin_u64_witness ==
    /\ pc = "witness" /\ fn = "miller_rabin_primality_test_u64"
    /\ IF i < Len(witnesses(n))
       THEN /\ a' = witnesses(n)[i + 1]
            /\ IF witness_passes_u64(a', n, d, r)
               THEN i' = i + 1 /\ UNCHANGED << pc, result >>
               ELSE Return("Composite") /\ UNCHANGED i
       ELSE Return("Prime") /\ UNCHANGED << a, i >>
    /\ UNCHANGED << fn, debug, n, k, bits, iter, overflow, d, r, draws,
                    liarsOnly, base, exponent, modulus >>

\* miller_rabin_primality_test_biguint, up to the witness loop
miller_rabin_biguint_begin ==
    /\ pc = "call" /\ fn = "miller_rabin_primality_test_biguint"
    /\ IF debug /\ ~(k > 0 /\ n > 4 /\ n % 2 # 0)
       THEN Panic /\ UNCHANGED << d, r >>      \* debug_assert!
       ELSE IF n < 2
       THEN Panic /\ UNCHANGED << d, r >>      \* n - 2u8 below zero
       ELSE /\ d' = factor_twos(n - 1, 0)[1]
            /\ r' = factor_twos(n - 1, 0)[2]
            /\ pc' = "witness"
            /\ UNCHANGED result
    /\ UNCHANGED << fn, debug, n, k, a, i, bits, iter, overflow, draws,
                    liarsOnly, base, exponent, modulus >>

\* one round of miller_rabin_primality_test_biguint, or the return after the
\* last
miller_rabin_biguint_round ==
    /\ pc = "witness" /\ fn = "miller_rabin_primality_test_biguint"
    /\ IF i < k
       THEN IF gen_range(2, n - 2) = {}
            THEN Panic /\ UNCHANGED << a, i, draws >>
            ELSE \E w \in gen_range(2, n - 2) :
                    /\ a' = w
                    /\ draws' = draws + 1
                    /\ IF witness_passes_biguint(w, n, d, r)
                       THEN i' = i + 1 /\ UNCHANGED << pc, result >>
                       ELSE Return("Composite") /\ UNCHANGED i
       ELSE Return("ProbablyPrime") /\ UNCHANGED << a, i, draws >>
    /\ UNCHANGED << fn, debug, n, k, bits, iter, overflow, d, r,
                    liarsOnly, base, exponent, modulus >>

InitMR ==
    /\ fn \in {"miller_rabin_primality_test_u64",
               "miller_rabin_primality_test_biguint"}
    /\ debug \in BOOLEAN
    /\ pc = "call"
    /\ n \in IF fn = "miller_rabin_primality_test_u64"
             THEN 0..U64_MAX ELSE 0..MaxBig
    /\ k \in IF fn = "miller_rabin_primality_test_u64" THEN {0} ELSE 1..MaxK
    /\ bits = 0 /\ i = 0 /\ iter = 0 /\ overflow = FALSE
    /\ a = 0 /\ d = 0 /\ r = 0 /\ draws = 0 /\ liarsOnly = TRUE
    /\ base = 0 /\ exponent = 0 /\ modulus = 0
    /\ result = "none"

NextMR == \/ miller_rabin_u64_begin
          \/ miller_rabin_u64_witness
          \/ miller_rabin_biguint_begin
          \/ miller_rabin_biguint_round

SpecMR == InitMR /\ [][NextMR]_vars

-----------------------------------------------------------------------------
(* Legendre symbol (solovay_strassen.rs) *)

\* the inner loop with the sign flipped for n % 8 == 3 only
RECURSIVE strip_twos_three_only(_, _, _)
strip_twos_three_only(x, v, ret) ==
    IF x % 2 = 0
    THEN strip_twos_three_only(x \div 2, v, IF v % 8 = 3 THEN -ret ELSE ret)
    ELSE << x, ret >>

\* the inner loop `while a % 2 == 0` (entered with a # 0): << a, ret >> when
\* it ends
RECURSIVE strip_twos(_, _, _)
strip_twos(x, v, ret) ==
    IF x % 2 = 0
    THEN strip_twos(x \div 2, v, IF v % 8 = 3 \/ v % 8 = 5 THEN -ret ELSE ret)
    ELSE << x, ret >>

\* the loop `while a != 0` with the reciprocity flip left out
RECURSIVE legendre_loop_no_reciprocity(_, _, _)
legendre_loop_no_reciprocity(x, v, ret) ==
    IF x # 0
    THEN LET s  == strip_twos(x, v, ret)
             a1 == v
             n1 == s[1]
         IN  legendre_loop_no_reciprocity(a1 % n1, n1, s[2])
    ELSE IF v = 1 THEN ret ELSE 0

\* the loop `while a != 0` and the result after it; the function's two
\* variants (u64 widened to u128, BigUint) run this same loop
RECURSIVE legendre_loop(_, _, _)
legendre_loop(x, v, ret) ==
    IF x # 0
    THEN LET s  == strip_twos(x, v, ret)
             a1 == v                     \* swap: a = n, n = a_copy
             n1 == s[1]
             r1 == IF a1 % 4 = 3 /\ n1 % 4 = 3 THEN -(s[2]) ELSE s[2]
         IN  legendre_loop(a1 % n1, n1, r1)
    ELSE IF v = 1 THEN ret ELSE 0

\* the value that stands for "the call panicked" where a symbol is returned
SYMBOL_PANIC == 2

\* legendre_symbol_u64 in a build with debug assertions (dbg) or without
legendre_symbol_u64(x, v, dbg) ==
    IF dbg /\ ~(v > 1 /\ x >= 2 /\ x < v - 1)
    THEN SYMBOL_PANIC                   \* debug_assert!
    ELSE legendre_loop(x, v, 1)

\* legendre_symbol_biguint
legendre_symbol_biguint(x, v) == legendre_loop(x, v, 1)

-----------------------------------------------------------------------------
(* Reference notions: the Jacobi symbol and Euler liars *)

\* the least prime factor of v > 1
LeastFactor(v) == CHOOSE p \in 2..v : v % p = 0 /\ \A q \in 2..(p - 1) : v % q # 0

\* the Legendre symbol (x | p) for an odd prime p, by its definition
LegendreRef(x, p) ==
    IF x % p = 0 THEN 0
    ELSE IF \E y \in 1..(p - 1) : (y * y) % p = x % p THEN 1
    ELSE -1

\* the Jacobi symbol (x | v) for odd v >= 1: the product of the Legendre
\* symbols over the prime factors of v, with multiplicity
RECURSIVE JacobiRef(_, _)
JacobiRef(x, v) ==
    IF v = 1
    THEN 1
    ELSE LegendreRef(x, LeastFactor(v)) * JacobiRef(x, v \div LeastFactor(v))

\* the greatest common divisor
RECURSIVE Gcd(_, _)
Gcd(x, y) == IF y = 0 THEN x ELSE Gcd(y, x % y)

\* x is an Euler liar for odd v > 2: (x | v) is not 0 and is congruent to
\* x^((v-1)/2) modulo v
EulerLiar(x, v) ==
    /\ v > 2 /\ v % 2 = 1
    /\ JacobiRef(x, v) # 0
    /\ PowRef(x, (v - 1) \div 2, v) = (JacobiRef(x, v) + v) % v

-----------------------------------------------------------------------------
(* Solovay-Strassen (solovay_strassen.rs) *)

\* one round with the comparison of the x == 1 arm left out
round_u64_unchecked_one(w, v, dbg) ==
    LET x   == legendre_symbol_u64(w, v, dbg)
        exp == (v - 1) \div 2
    IN  IF x = SYMBOL_PANIC THEN "panic"
        ELSE IF x = -1
        THEN IF v - 1 # modpow(w, exp, v) THEN "composite" ELSE "pass"
        ELSE IF x = 0 THEN "composite"
        ELSE "pass"

\* one round of solovay_strassen_primality_test_u64 with the value w drawn:
\* "composite" (return Composite), "pass" (next round) or "panic"
round_u64(w, v, dbg) ==
    LET x   == legendre_symbol_u64(w, v, dbg)
        exp == (v - 1) \div 2
    IN  IF x = SYMBOL_PANIC THEN "panic"
        ELSE IF x = -1
        THEN IF v - 1 # modpow(w, exp, v) THEN "composite" ELSE "pass"
        ELSE IF x = 0 THEN "composite"
        ELSE IF 1 # modpow(w, exp, v) THEN "composite" ELSE "pass"

\* one round of solovay_strassen_primality_test_biguint
round_biguint(w, v) ==
    LET x   == legendre_symbol_biguint(w, v)
        exp == (v - 1) \div 2
    IN  IF x = -1
        THEN IF v - 1 # biguint_modpow(w, exp, v) THEN "composite" ELSE "pass"
        ELSE IF x = 0 THEN "composite"
        ELSE IF 1 # biguint_modpow(w, exp, v) THEN "composite" ELSE "pass"

\* solovay_strassen_primality_test_u64, up to the loop
solovay_strassen_u64_begin ==
    /\ pc = "call" /\ fn = "solovay_strassen_primality_test_u64"
    /\ IF debug /\ ~(n > 3 /\ n % 2 # 0 /\ k > 0)
       THEN Panic                              \* debug_assert!
       ELSE IF n \in {0, 1}
       THEN Return("ZeroOrOne")
       ELSE IF n \in {2, 3, 5}
       THEN Return("ProbablyPrime")
       ELSE pc' = "round" /\ UNCHANGED result
    /\ UNCHANGED << fn, debug, n, k, a, i, bits, iter, overflow, d, r, draws,
                    liarsOnly, base, exponent, modulus >>

\* one round of solovay_strassen_primality_test_u64, or the return after
\* the last
solovay_strassen_u64_round ==
    /\ pc = "round" /\ fn = "solovay_strassen_primality_test_u64"
    /\ IF i < k
       THEN IF gen_range(2, n - 1) = {}
            THEN Panic /\ UNCHANGED << a, i, draws, liarsOnly >>
            ELSE \E w \in gen_range(2, n - 1) :
                    /\ a' = w
                    /\ draws' = draws + 1
                    /\ liarsOnly' = (liarsOnly /\ EulerLiar(w, n))
                    /\ IF round_u64(w, n, debug) = "pass"
                       THEN i' = i + 1 /\ UNCHANGED << pc, result >>
                       ELSE IF round_u64(w, n, debug) = "composite"
                       THEN Return("Composite") /\ UNCHANGED i
                       ELSE Panic /\ UNCHANGED i
       ELSE Return("ProbablyPrime") /\ UNCHANGED << a, i, draws, liarsOnly >>
    /\ UNCHANGED << fn, debug, n, k, bits, iter, overflow, d, r,
                    base, exponent, modulus >>

\* solovay_strassen_primality_test_biguint, up to the loop
solovay_strassen_biguint_begin ==
    /\ pc = "call" /\ fn = "solovay_strassen_primality_test_biguint"
    /\ IF debug /\ ~(k > 0 /\ n > 3 /\ n % 2 # 0)
       THEN Panic                              \* debug_assert!
       ELSE IF n < 1
       THEN Panic                              \* n - 1u8 below zero
       ELSE pc' = "round" /\ UNCHANGED result
    /\ UNCHANGED << fn, debug, n, k, a, i, bits, iter, overflow, d, r, draws,
                    liarsOnly, base, exponent, modulus >>

\* one round of solovay_strassen_primality_test_biguint, or the return
\* after the last
solovay_strassen_biguint_round ==
    /\ pc = "round" /\ fn = "solovay_strassen_primality_test_biguint"
    /\ IF i < k
       THEN IF gen_range(2, n - 1) = {}
            THEN Panic /\ UNCHANGED << a, i, draws, liarsOnly >>
            ELSE \E w \in gen_range(2, n - 1) :
                    /\ a' = w
                    /\ draws' = draws + 1
                    /\ liarsOnly' = (liarsOnly /\ EulerLiar(w, n))
                    /\ IF round_biguint(w, n) = "pass"
                       THEN i' = i + 1 /\ UNCHANGED << pc, result >>
                       ELSE Return("Composite") /\ UNCHANGED i
       ELSE Return("ProbablyPrime") /\ UNCHANGED << a, i, draws, liarsOnly >>
    /\ UNCHANGED << fn, debug, n, k, bits, iter, overflow, d, r,
                    base, exponent, modulus >>

InitSS ==
    /\ fn \in {"solovay_strassen_primality_test_u64",
               "solovay_strassen_primality_test_biguint"}
    /\ debug \in BOOLEAN
    /\ pc = "call"
    /\ n \in 0..MaxBig
    /\ k \in 1..MaxK
    /\ bits = 0 /\ i = 0 /\ iter = 0 /\ overflow = FALSE
    /\ a = 0 /\ d = 0 /\ r = 0 /\ draws = 0 /\ liarsOnly = TRUE
    /\ base = 0 /\ exponent = 0 /\ modulus = 0
    /\ result = "none"

NextSS == \/ solovay_strassen_u64_begin
          \/ solovay_strassen_u64_round
          \/ solovay_strassen_biguint_begin
          \/ solovay_strassen_biguint_round

SpecSS == InitSS /\ [][NextSS]_vars

-----------------------------------------------------------------------------
(* legendre_symbol_u64 and modpow called on their own *)

\* the arguments of modpow are taken within ArgEdge of 0, of the square root
\* of the word and of the top of the word
ArgEdge == 5

InputsU64 == (0..ArgEdge)
             \cup ((2^(WordBits \div 2) - ArgEdge)..(2^(WordBits \div 2) + ArgEdge))
             \cup ((U64_MAX - ArgEdge)..U64_MAX)

\* a call of legendre_symbol_u64(a, n)
legendre_symbol_u64_call ==
    /\ pc = "call" /\ fn = "legendre_symbol_u64"
    /\ LET x == legendre_symbol_u64(a, n, debug)
       IN  IF x = SYMBOL_PANIC THEN Panic ELSE Return(x)
    /\ UNCHANGED << fn, debug, n, k, a, i, bits, iter, overflow, d, r, draws,
                    liarsOnly, base, exponent, modulus >>

\* a call of legendre_symbol_biguint(a, n)
legendre_symbol_biguint_call ==
    /\ pc = "call" /\ fn = "legendre_symbol_biguint"
    /\ Return(legendre_symbol_biguint(a, n))
    /\ UNCHANGED << fn, debug, n, k, a, i, bits, iter, overflow, d, r, draws,
                    liarsOnly, base, exponent, modulus >>

InitLegendre ==
    /\ fn \in {"legendre_symbol_u64", "legendre_symbol_biguint"}
    /\ debug \in BOOLEAN
    /\ pc = "call"
    /\ n \in 1..MaxBig
    /\ a \in 0..MaxBig
    /\ k = 0 /\ bits = 0 /\ i = 0 /\ iter = 0 /\ overflow = FALSE
    /\ d = 0 /\ r = 0 /\ draws = 0 /\ liarsOnly = TRUE
    /\ base = 0 /\ exponent = 0 /\ modulus = 0
    /\ result = "none"

NextLegendre == \/ legendre_symbol_u64_call
                \/ legendre_symbol_biguint_call

SpecLegendre == InitLegendre /\ [][NextLegendre]_vars

\* a call of modpow(base, exponent, modulus)
modpow_call ==
    /\ pc = "call" /\ fn = "modpow"
    /\ LET x == modpow(base, exponent, modulus)
       IN  IF x = PANIC THEN Panic ELSE Return(x)
    /\ UNCHANGED << fn, debug, n, k, a, i, bits, iter, overflow, d, r, draws,
                    liarsOnly, base, exponent, modulus >>

InitModpow ==
    /\ fn = "modpow"
    /\ debug \in BOOLEAN
    /\ pc = "call"
    /\ base \in InputsU64
    /\ exponent \in InputsU64
    /\ modulus \in InputsU64
    /\ n = 0 /\ a = 0
    /\ k = 0 /\ bits = 0 /\ i = 0 /\ iter = 0 /\ overflow = FALSE
    /\ d = 0 /\ r = 0 /\ draws = 0 /\ liarsOnly = TRUE
    /\ result = "none"

NextModpow == modpow_call

SpecModpow == InitModpow /\ [][NextModpow]_vars

-----------------------------------------------------------------------------
(* The claims *)

\* what a correct primality test returns for v, Prime being a proof
Verdict(v) == IF v \in {0, 1} THEN "ZeroOrOne"
              ELSE IF IsPrime(v) THEN "Prime"
              ELSE "Composite"

\* the values one round draws from, and those among them that make the
\* round return Composite
DrawRangeSS(v) == gen_range(2, v - 1)

CompositeDrawsSS(v) ==
    { w \in DrawRangeSS(v) :
        IF fn = "solovay_strassen_primality_test_u64"
        THEN round_u64(w, v, debug) = "composite"
        ELSE round_biguint(w, v) = "composite" }

DrawRangeMR(v) == gen_range(2, v - 2)

CompositeDrawsMR(v) ==
    { w \in DrawRangeMR(v) : ~witness_passes_biguint(w, v, d, r) }

IsSS == fn \in {"solovay_strassen_primality_test_u64",
                "solovay_strassen_primality_test_biguint"}

C2_TrialDivisionDecides ==
    (fn = "trial_division_u64" /\ pc \notin {"call", "loop"})
    => /\ pc = "done"
       /\ result = Verdict(n)

C4_PrimeIsProbablyPrime ==
    (fn = "solovay_strassen_primality_test_u64" /\ pc # "call"
        /\ IsPrime(n) /\ n > 3 /\ k > 0)
    => /\ pc \in {"round", "done"}
       /\ pc = "done" => result = "ProbablyPrime"

\* C4 witness: a prime beyond the small cases returned after k rounds.
C4_Witness ==
    /\ fn = "solovay_strassen_primality_test_u64" /\ pc = "done"
    /\ n = 47 /\ k = MaxK /\ i = k /\ draws = k /\ result = "ProbablyPrime"

\* C5 (SpecSS): for every odd composite n > 3, at least half of the values a
\* round draws from make that round return Composite, and 9 is returned
\* Composite whatever is drawn.
C5_HalfOfDrawsRefute ==
    (IsSS /\ IsComposite(n) /\ n % 2 = 1 /\ n > 3)
    => /\ (pc = "round" /\ i = 0)
            => 2 * Cardinality(CompositeDrawsSS(n)) >= Cardinality(DrawRangeSS(n))
       /\ (pc = "done" /\ n = 9) => result = "Composite"

\* C5 witness: a round on 25 drew a value that refutes it, and there are
\* values that do not.
C5_Witness ==
    /\ fn = "solovay_strassen_primality_test_u64" /\ pc = "done"
    /\ n = 25 /\ k = 1 /\ draws = 1 /\ result = "Composite"
    /\ CompositeDrawsSS(n) # DrawRangeSS(n)

\* C6 (SpecMR): for every odd composite n > 4, at least three quarters of the
\* values a round of miller_rabin_primality_test_biguint draws from make that
\* round return Composite.
C6_ThreeQuartersRefute ==
    (fn = "miller_rabin_primality_test_biguint" /\ pc = "witness" /\ i = 0
        /\ IsComposite(n) /\ n % 2 = 1 /\ n > 4)
    => 4 * Cardinality(CompositeDrawsMR(n)) >= 3 * Cardinality(DrawRangeMR(n))

\* C6 witness: a round on 25 drew a value that refutes it, and there are
\* values (7, 18) that do not.
C6_Witness ==
    /\ fn = "miller_rabin_primality_test_biguint" /\ pc = "done"
    /\ n = 25 /\ k = 1 /\ draws = 1 /\ result = "Composite"
    /\ CompositeDrawsMR(n) # DrawRangeMR(n)

\* C7 (SpecTD): trial division never overflows: no i.pow(2), i + 2 or i += 6
\* exceeds the width of its type, for any n of trial_division_u64 or
\* trial_division_u128.
C7_NoOverflow == ~overflow /\ pc # "panic"

\* C8 (SpecLegendre): for every odd n > 1 and every a in [2, n-1],
\* legendre_symbol_u64(a, n) returns the Jacobi symbol (a | n), a value of
\* {-1, 0, 1} that is 0 exactly when gcd(a, n) > 1 and, for prime n, 1
\* exactly when a is a quadratic residue modulo n.
C8_LegendreIsJacobi ==
    (fn = "legendre_symbol_u64" /\ pc # "call"
        /\ n > 1 /\ n % 2 = 1 /\ a \in 2..(n - 1))
    => /\ pc = "done"
       /\ result \in {-1, 0, 1}
       /\ result = JacobiRef(a, n)
       /\ (result = 0) = (Gcd(a, n) > 1)
       /\ IsPrime(n) => (result = 1) = (\E y \in 1..(n - 1) : (y * y) % n = a)

\* C9 (SpecModpow): for every base, exponent and modulus >= 1, modpow returns
\* base ^ exponent mod modulus, a value of the word (0 when modulus = 1; 1
\* when exponent = 0 and modulus # 1), and no assertion of modmul_u64 fails.
C9_ModpowIsPower ==
    (fn = "modpow" /\ pc # "call" /\ modulus >= 1)
    => /\ pc = "done"
       /\ result \in 0..U64_MAX
       /\ result = PowRef(base, exponent, modulus)
       /\ modulus = 1 => result = 0
       /\ (exponent = 0 /\ modulus # 1) => result = 1

\* C9 witness: a call whose products do not fit the word, so that modmul_u64
\* widens them.
C9_Witness ==
    /\ fn = "modpow" /\ pc = "done"
    /\ base = U64_MAX - 1 /\ exponent = U64_MAX /\ modulus = U64_MAX
    /\ (base % modulus) * (base % modulus) > U64_MAX
    /\ result = modulus - 1

\* C10 (SpecSS): solovay_strassen_primality_test_u64(n, k) returns ZeroOrOne
\* for n in {0, 1} and ProbablyPrime for n in {2, 3, 5}, without drawing a
\* value or running a round.
C10_SmallCasesReturn ==
    (fn = "solovay_strassen_primality_test_u64" /\ pc # "call"
        /\ n \in {0, 1, 2, 3, 5})
    => /\ pc = "done"
       /\ result = IF n \in {0, 1} THEN "ZeroOrOne" ELSE "ProbablyPrime"
       /\ draws = 0 /\ i = 0

\* C11 (SpecSS): in every round of Solovay-Strassen, 64-bit and arbitrary
\* precision, on an odd n > 3, the values the round draws from are exactly
\* those of the closed range [2, n-1], n - 1 included; each of them is
\* accepted by the Legendre-symbol routine; and every value drawn lies in
\* that range.
C11_DrawsFromClosedRange ==
    (IsSS /\ pc # "call" /\ n % 2 = 1 /\ n > 3)
    => /\ draws > 0 => a \in 2..(n - 1)
       /\ pc = "round"
            => /\ DrawRangeSS(n) = 2..(n - 1)
               /\ fn = "solovay_strassen_primality_test_u64"
                    => \A w \in 2..(n - 1) :
                          legendre_symbol_u64(w, n, debug) # SYMBOL_PANIC

\* C12 (SpecMR): in every round of miller_rabin_primality_test_biguint on an
\* odd n > 4, the values the round draws from are exactly those of the closed
\* range [2, n-2], n - 2 included; there is at least one; and every value
\* drawn lies in that range.
C12_DrawsFromClosedRange ==
    (fn = "miller_rabin_primality_test_biguint" /\ pc # "call"
        /\ n % 2 = 1 /\ n > 4)
    => /\ pc # "panic"
       /\ draws > 0 => a \in 2..(n - 2)
       /\ pc = "witness" => /\ DrawRangeMR(n) # {}
                            /\ DrawRangeMR(n) = 2..(n - 2)

\* the witnesses the comparison with the textbook loop is made for, besides
\* those of the table: 1..MaxA (below n)
MaxA == 64

\* x after j iterations of the inner loop that did not leave it, 64-bit and
\* arbitrary precision
RECURSIVE squared_u64(_, _, _)
squared_u64(x, v, j) ==
    IF j = 0 THEN x ELSE squared_u64(modpow(x, 2, v), v, j - 1)

RECURSIVE squared_biguint(_, _, _)
squared_biguint(x, v, j) ==
    IF j = 0 THEN x ELSE squared_biguint(biguint_modpow(x, 2, v), v, j - 1)

\* the textbook inner loop, which squares r - 1 times, and the textbook body
\* of the witness loop
RECURSIVE TextbookSquarings(_, _, _, _)
TextbookSquarings(x, v, rr, j) ==
    IF j < rr - 1
    THEN LET x2 == PowRef(x, 2, v)
         IN  IF x2 = v - 1 THEN TRUE ELSE TextbookSquarings(x2, v, rr, j + 1)
    ELSE FALSE

TextbookPasses(w, v, dd, rr) ==
    LET x == PowRef(w, dd, v)
    IN  IF x = 1 \/ x = v - 1 THEN TRUE ELSE TextbookSquarings(x, v, rr, 0)

\* the index set of a sequence
Indices(s) == 1..Len(s)

\* the witnesses compared for n
WitnessesC13 ==
    IF fn = "miller_rabin_primality_test_u64"
    THEN { witnesses(n)[j] : j \in Indices(witnesses(n)) }
            \cup { w \in 1..MaxA : w < n }
    ELSE 1..(n - 1)

\* C13 (SpecMR): for every odd n > 1, written n - 1 = 2^r * d with d odd, and
\* every witness a, the r-th squaring of the inner loop, a^(n-1) mod n, is
\* never n - 1, and the witness passes the code's loop of r squarings exactly
\* when it passes the textbook loop of r - 1; so the result returned is that
\* of the textbook variant.
C13_ExtraSquaringIsIdle ==
    (pc \in {"witness", "done"} /\ n % 2 = 1 /\ n > 1)
    => /\ n - 1 = 2^r * d /\ d % 2 = 1 /\ r >= 1
       /\ (pc = "witness" /\ i = 0)
            => \A w \in WitnessesC13 :
                  IF fn = "miller_rabin_primality_test_u64"
                  THEN /\ squared_u64(modpow(w, d, n), n, r) # n - 1
                       /\ witness_passes_u64(w, n, d, r)
                            = TextbookPasses(w, n, d, r)
                  ELSE /\ squared_biguint(biguint_modpow(w, d, n), n, r) # n - 1
                       /\ witness_passes_biguint(w, n, d, r)
                            = TextbookPasses(w, n, d, r)
       /\ (pc = "done" /\ fn = "miller_rabin_primality_test_u64")
            => (result = "Prime")
                 = \A j \in Indices(witnesses(n)) :
                      TextbookPasses(witnesses(n)[j], n, d, r)
       /\ (pc = "done" /\ fn = "miller_rabin_primality_test_biguint"
              /\ result = "Composite")
            => ~TextbookPasses(a, n, d, r)

\* C13 witness: on 4033 = 37 * 109 (4032 = 2^6 * 63) the witness 3 runs the
\* inner loop to its end, the sixth squaring included, and the result is
\* Composite.
C13_Witness ==
    /\ fn = "miller_rabin_primality_test_u64" /\ pc = "done"
    /\ n = 4033 /\ r = 6 /\ d = 63 /\ a = 3 /\ result = "Composite"
    /\ \A j \in 0..r : squared_u64(modpow(a, d, n), n, j) # n - 1
    /\ ~TextbookPasses(a, n, d, r)

=============================================================================
